---- MODULE Spec2Model ----
(***************************************************************************)
(* Model of the Kubernetes ReplicationController resource plug-in          *)
(* (contrib/heat_kubernetes/heat_kubernetes/resources/kubernetes_rc.py).   *)
(*                                                                         *)
(* The four lifecycle hooks handle_create, check_create_complete,          *)
(* handle_delete and check_delete_complete are modelled statement by       *)
(* statement: every call on the kubernetes client is one step, so that the *)
(* control plane can move between two calls of the same invocation.        *)
(* The control plane (replication controllers, pods) and the engine that   *)
(* invokes the hooks are the environment.                                  *)
(*                                                                         *)
(* Python values: None is the string "None"; an optional local (rc,        *)
(* content) is a sequence of length 0 (None) or 1; an exception that       *)
(* leaves a hook is the hook's outcome "KubernetesError", "IOError" or     *)
(* "AttributeError".  rc.Labels is modelled by the value of its 'name'     *)
(* key, the only key the code reads (rc.Labels.get('name')).               *)
(***************************************************************************)
EXTENDS Naturals, Sequences, FiniteSets

VARIABLES
    rcs,          \* control plane: name -> <<>> (absent) or <<record>>
    pods,         \* control plane: label value -> list of pod phases
    used,         \* control plane: names already given out by Create
    resource_id,  \* self.resource_id (persisted by the engine)
    labels,       \* self.labels (in memory only): value of 'name', or "None"
    phase,        \* engine: where the resource is in its lifecycle
    token,        \* engine: value the last handle_* returned, passed to check_*
    op,           \* hook being executed, "" when none
    pc,           \* position inside the hook
    rc_name,      \* argument rc_name of check_*_complete
    rc,           \* local rc: <<>> (unset / None) or <<record>>
    pod_list,     \* local pod_list.Items
    content,      \* local content of handle_create: <<>> (None) or <<body>>
    calls,        \* client calls made by the current invocation, in order
    ret,          \* outcome of the current invocation, "" until it ends
    moved,        \* the control plane changed during the current invocation
    seen,         \* boolean results of check_create_complete since the
                  \* control plane last changed: set of <<rc_name, result>>
    resized       \* history: names a ResizeReplicationController call was
                  \* issued for, accepted or not

vars == <<rcs, pods, used, resource_id, labels, phase, token, op, pc, rc_name,
          rc, pod_list, content, calls, ret, moved, seen, resized>>

\* Largest replica count a definition asks for.
MaxReplicas == 2

Names == {"rc1", "rc2"}
Phases == {"Pending", "Running"}
None == "None"

\* The value the control plane gives the 'name' label of workload n.
LabelOf(n) == IF n = "rc1" THEN "app1" ELSE "app2"
LabelValues == {LabelOf(n) : n \in Names}

Exceptions == {"KubernetesError", "IOError", "AttributeError"}

RC(d, c, l) == [DesiredState |-> d, CurrentState |-> c, Labels |-> l]

Call(o, n, out) == [op |-> o, name |-> n, out |-> out]

CallsOf(o) == {i \in 1..Len(calls) : calls[i].op = o}

RemoveAt(s, i) == [j \in 1..(Len(s) - 1) |-> IF j < i THEN s[j] ELSE s[j + 1]]

----------------------------------------------------------------------------
(* Control plane, as seen through the kubernetes client.                   *)

Present(n) == n \in Names /\ rcs[n] # <<>>

PutRC(n, r) == [rcs EXCEPT ![n] = <<r>>]

DropRC(n) == [rcs EXCEPT ![n] = <<>>]

\* client.GetPods(namespace, selector): the pods carrying the label value.
GetPods(selector) == IF selector \in LabelValues THEN pods[selector] ELSE <<>>

\* Effect of an accepted ResizeReplicationController(name, replicas).
Resized(n, replicas) == PutRC(n, [rcs[n][1] EXCEPT !.DesiredState = replicas])

----------------------------------------------------------------------------
Init ==
    /\ rcs = [n \in Names |-> <<>>]
    /\ pods = [l \in LabelValues |-> <<>>]
    /\ used = {}
    /\ resource_id = None
    /\ labels = None
    /\ phase = "init"
    /\ token = None
    /\ op = ""
    /\ pc = "idle"
    /\ rc_name = None
    /\ rc = <<>>
    /\ pod_list = <<>>
    /\ content = <<>>
    /\ calls = <<>>
    /\ ret = ""
    /\ moved = FALSE
    /\ seen = {}
    /\ resized = {}

\* The engine starts hook o with argument a; the hook is then at position p
\* (with outcome r when it has already ended there).
Enter(o, p, a, r) ==
    /\ pc = "idle"
    /\ op' = o
    /\ pc' = p
    /\ rc_name' = a
    /\ ret' = r
    /\ rc' = <<>>
    /\ pod_list' = <<>>
    /\ content' = <<>>
    /\ calls' = <<>>
    /\ moved' = FALSE

\* The hook ends with outcome v (a returned value or an escaping exception).
Finish(v) ==
    /\ pc' = "done"
    /\ ret' = v

\* The control plane changed.
Touched ==
    /\ moved' = (pc # "idle")
    /\ seen' = {}

Untouched == UNCHANGED <<rcs, pods, used, moved, seen>>

----------------------------------------------------------------------------
(* What a client call can answer.  "ok" is a normal return; "None" is a    *)
(* normal return of None, the answer GetReplicationController gives for a  *)
(* name the control plane does not know (line 325 tests for it); every     *)
(* other answer is a raised KubernetesError of that kind (lines 314 and    *)
(* 332 catch it): "Transient" for a call that did not get through,         *)
(* "NotFound" for a change asked of a workload that is gone, "Rejected"    *)
(* for a definition the control plane refuses.                             *)

GetAnswers(n) ==
    IF Present(n) THEN {"ok", "Transient"} ELSE {"None", "Transient"}

ChangeAnswers(n) ==
    IF Present(n) THEN {"ok", "Transient"} ELSE {"NotFound", "Transient"}

ListAnswers == {"ok", "Transient"}

CreateAnswers(body) ==
    IF body = <<>> \/ used = Names
    THEN {"Rejected", "Transient"}
    ELSE {"ok", "Rejected", "Transient"}

\* The name the control plane gives the next workload.
FreshName == IF "rc1" \notin used THEN "rc1" ELSE "rc2"

----------------------------------------------------------------------------
(* handle_create, lines 280-287, with _read_definition, lines 268-275.     *)

Call_handle_create ==
    /\ phase \in {"init", "created"}
    /\ used # Names
    /\ Enter("handle_create", "hc_read", None, "")
    /\ Untouched
    /\ UNCHANGED <<resource_id, labels, phase, token>>
    /\ UNCHANGED resized

\* _read_definition: open(path) is outside the try and its IOError leaves the
\* hook; an error of file_obj.read() is discarded by the return in the
\* finally block, which returns content, still None.
HandleCreate_Read(how) ==
    /\ pc = "hc_read"
    /\ \/ /\ how = "open fails"
          /\ Finish("IOError")
          /\ UNCHANGED content
       \/ /\ how = "read fails"
          /\ content' = <<>>
          /\ pc' = "hc_submit"
          /\ UNCHANGED ret
       \/ /\ how = "read"
          /\ \E d \in 0..MaxReplicas : content' = <<d>>
          /\ pc' = "hc_submit"
          /\ UNCHANGED ret
    /\ Untouched
    /\ UNCHANGED <<resource_id, labels, phase, token, op, rc_name, rc,
                   pod_list, calls>>
    /\ UNCHANGED resized

\* An identity once recorded is kept.
RecordedId_KeepFirst(old, n) == IF old = None THEN n ELSE old

\* Line 286: resource_id_set(self.rc_name) records the name of this result,
\* whatever was recorded before.
RecordedId(old, n) == n

\* Lines 283-287: the create call, then the name and the labels of the
\* result are recorded.
HandleCreate_Create(ans) ==
    /\ pc = "hc_submit"
    /\ ans \in CreateAnswers(content)
    /\ calls' = Append(calls, Call("Create", "", ans))
    /\ IF ans = "ok"
       THEN LET n == FreshName IN
            /\ rcs' = PutRC(n, RC(content[1], 0, LabelOf(n)))
            /\ used' = used \cup {n}
            /\ UNCHANGED pods
            /\ Touched
            /\ labels' = LabelOf(n)
            /\ resource_id' = RecordedId(resource_id, n)
            /\ Finish(n)
       ELSE /\ Untouched
            /\ UNCHANGED <<resource_id, labels>>
            /\ Finish("KubernetesError")
    /\ UNCHANGED <<phase, token, op, rc_name, rc, pod_list, content>>
    /\ UNCHANGED resized

----------------------------------------------------------------------------
(* check_create_complete, lines 289-304.                                   *)

\* A pod only has to be past scheduling.
IsPodRunning_NotFailed(pod) == pod # "Failed"

\* _is_pod_running, lines 277-278.
IsPodRunning(pod) == pod = "Running"

\* The replica counts are not compared: the pods are always listed.
CountsBehind_Never(r) == r.DesiredState > MaxReplicas + r.CurrentState

\* Line 294.
CountsBehind(r) == r.DesiredState > r.CurrentState

\* Lines 298-304.
PodsVerdict(r, items) ==
    IF Len(items) < r.DesiredState
    THEN "False"
    ELSE IF \E i \in 1..Len(items) : ~IsPodRunning(items[i])
         THEN "False"
         ELSE "True"

\* The selector is taken from the labels handle_create recorded.
Selector_Recorded(r) == labels

\* rc.Labels.get('name'), lines 297 and 327: the selector is read off the
\* fetched controller.
Selector(r) == r.Labels

\* The error of GetPods is caught and the scan runs over no pod.
CheckCreate_PodsOutcome_Caught(ans, r, items) ==
    IF ans = "ok" THEN PodsVerdict(r, items) ELSE PodsVerdict(r, <<>>)

\* Outcome of lines 297-304 for the answer of GetPods: its error escapes.
CheckCreate_PodsOutcome(ans, r, items) ==
    IF ans = "ok" THEN PodsVerdict(r, items) ELSE "KubernetesError"

\* Outcome of lines 292-295 when GetReplicationController gave no
\* controller: its error escapes; None fails at rc.DesiredState.
CheckCreate_NoRCOutcome(ans) ==
    IF ans = "None" THEN "AttributeError" ELSE "KubernetesError"

Call_check_create_complete ==
    /\ phase = "created"
    /\ Enter("check_create_complete", "cc_get", token, "")
    /\ Untouched
    /\ UNCHANGED <<resource_id, labels, phase, token>>
    /\ UNCHANGED resized

\* The hook that asks for the replicas again when the counts are behind.
CheckCreate_GetRC_Nudge(ans) ==
    /\ pc = "cc_get"
    /\ ans \in GetAnswers(rc_name)
    /\ IF ans = "ok"
       THEN /\ rc' = rcs[rc_name]
            /\ IF CountsBehind(rcs[rc_name][1])
               THEN /\ calls' = calls \o <<Call("Get", rc_name, ans),
                                          Call("Resize", rc_name, "Transient")>>
                    /\ resized' = resized \cup {rc_name}
                    /\ Finish("False")
               ELSE /\ calls' = Append(calls, Call("Get", rc_name, ans))
                    /\ pc' = "cc_pods"
                    /\ UNCHANGED <<ret, resized>>
       ELSE /\ rc' = <<>>
            /\ calls' = Append(calls, Call("Get", rc_name, ans))
            /\ Finish(CheckCreate_NoRCOutcome(ans))
            /\ UNCHANGED resized
    /\ Untouched
    /\ UNCHANGED <<resource_id, labels, phase, token, op, rc_name, pod_list,
                   content>>

\* Lines 292-295.  Nothing catches a KubernetesError here, and a None
\* result fails at rc.DesiredState with an AttributeError.
CheckCreate_GetRC(ans) ==
    /\ pc = "cc_get"
    /\ ans \in GetAnswers(rc_name)
    /\ calls' = Append(calls, Call("Get", rc_name, ans))
    /\ IF ans = "ok"
       THEN /\ rc' = rcs[rc_name]
            /\ IF CountsBehind(rcs[rc_name][1])
               THEN Finish("False")
               ELSE pc' = "cc_pods" /\ UNCHANGED ret
       ELSE /\ rc' = <<>>
            /\ Finish(CheckCreate_NoRCOutcome(ans))
    /\ Untouched
    /\ UNCHANGED <<resource_id, labels, phase, token, op, rc_name, pod_list,
                   content>>
    /\ UNCHANGED resized

\* Lines 297-304.
CheckCreate_GetPods(ans) ==
    /\ pc = "cc_pods"
    /\ ans \in ListAnswers
    /\ calls' = Append(calls, Call("GetPods", Selector(rc[1]), ans))
    /\ pod_list' = IF ans = "ok" THEN GetPods(Selector(rc[1])) ELSE pod_list
    /\ Finish(CheckCreate_PodsOutcome(ans, rc[1], GetPods(Selector(rc[1]))))
    /\ Untouched
    /\ UNCHANGED <<resource_id, labels, phase, token, op, rc_name, rc, content>>
    /\ UNCHANGED resized

----------------------------------------------------------------------------
(* handle_delete, lines 306-317.                                           *)

\* The hook without the test of line 307: the resize is issued even when no
\* resource_id is recorded.
Call_handle_delete_NoGuard ==
    /\ phase \in {"init", "created"}
    /\ Enter("handle_delete", "hd_resize", None, "")
    /\ Untouched
    /\ UNCHANGED <<resource_id, labels, phase, token>>
    /\ UNCHANGED resized

\* The hook without its resize: it only hands the identity back.
Call_handle_delete_NoResize ==
    /\ phase \in {"init", "created"}
    /\ Enter("handle_delete", "done", None, resource_id)
    /\ Untouched
    /\ UNCHANGED <<resource_id, labels, phase, token>>
    /\ UNCHANGED resized

\* Lines 307-308: with no resource_id the hook returns None at once.
Call_handle_delete ==
    /\ phase \in {"init", "created"}
    /\ IF resource_id = None
       THEN Enter("handle_delete", "done", None, "None")
       ELSE Enter("handle_delete", "hd_resize", None, "")
    /\ Untouched
    /\ UNCHANGED <<resource_id, labels, phase, token>>
    /\ UNCHANGED resized

\* The resize asks for one replica.
ResizeReplicas_One == 0 + 1

\* replicas=0, lines 312 and 330.
ResizeReplicas == 0

\* The error of the resize is not caught.
HandleDelete_Outcome_Raises(ans, id) == IF ans = "ok" THEN id ELSE "KubernetesError"

\* Outcome of lines 311-317: the KubernetesError of the resize is caught and
\* logged, and the hook returns self.resource_id either way.
HandleDelete_Outcome(ans, id) == id

HandleDelete_Resize(ans) ==
    /\ pc = "hd_resize"
    /\ ans \in ChangeAnswers(resource_id)
    /\ calls' = Append(calls, Call("Resize", resource_id, ans))
    /\ IF ans = "ok"
       THEN rcs' = Resized(resource_id, ResizeReplicas) /\ UNCHANGED <<pods, used>> /\ Touched
       ELSE Untouched
    /\ Finish(HandleDelete_Outcome(ans, resource_id))
    /\ UNCHANGED <<resource_id, labels, phase, token, op, rc_name, rc,
                   pod_list, content>>
    /\ resized' = resized \cup {resource_id}

----------------------------------------------------------------------------
(* check_delete_complete, lines 319-338.                                   *)

\* The test is off by one: a single pod does not count.
HasMembers_MoreThanOne(items) == Len(items) > 1

\* Line 328: pod_list.Items and len(pod_list.Items).
HasMembers(items) == Len(items) > 0

\* A controller that is gone counts as "not yet".
CheckDelete_NoRCOutcome_NotYet(ans) ==
    IF ans = "None" THEN "False" ELSE "KubernetesError"

\* Outcome of lines 324-326 when GetReplicationController gave no
\* controller: None means gone; its error escapes.
CheckDelete_NoRCOutcome(ans) ==
    IF ans = "None" THEN "True" ELSE "KubernetesError"

\* An error of the repeated resize leaves the hook.
CheckDelete_ResizeOutcome_Raises(ans) ==
    IF ans = "ok" THEN "False" ELSE "KubernetesError"

\* Outcome of lines 329-335: the error of the resize is caught and logged.
CheckDelete_ResizeOutcome(ans) == "False"

\* The error of the delete call is caught like the one of the resize.
CheckDelete_DeleteOutcome_Caught(ans) == "True"

\* Outcome of lines 337-338: the error of the delete call escapes.
CheckDelete_DeleteOutcome(ans) ==
    IF ans = "ok" THEN "True" ELSE "KubernetesError"

\* Lines 320-321.
\* The hook without the test of lines 320-321.
Call_check_delete_complete_NoGuard ==
    /\ phase \in {"deleting", "deleted"}
    /\ Enter("check_delete_complete", "cd_get", token, "")
    /\ Untouched
    /\ UNCHANGED <<resource_id, labels, phase, token>>
    /\ UNCHANGED resized

Call_check_delete_complete ==
    /\ phase \in {"deleting", "deleted"}
    /\ IF token = None
       THEN Enter("check_delete_complete", "done", token, "True")
       ELSE Enter("check_delete_complete", "cd_get", token, "")
    /\ Untouched
    /\ UNCHANGED <<resource_id, labels, phase, token>>
    /\ UNCHANGED resized

\* Lines 324-326: only a None result counts as "gone".
CheckDelete_GetRC(ans) ==
    /\ pc = "cd_get"
    /\ ans \in GetAnswers(rc_name)
    /\ calls' = Append(calls, Call("Get", rc_name, ans))
    /\ IF ans = "ok"
       THEN /\ rc' = rcs[rc_name]
            /\ pc' = "cd_pods"
            /\ UNCHANGED ret
       ELSE /\ rc' = <<>>
            /\ Finish(CheckDelete_NoRCOutcome(ans))
    /\ Untouched
    /\ UNCHANGED <<resource_id, labels, phase, token, op, rc_name, pod_list,
                   content>>
    /\ UNCHANGED resized

\* Lines 327-328.
CheckDelete_GetPods(ans) ==
    /\ pc = "cd_pods"
    /\ ans \in ListAnswers
    /\ calls' = Append(calls, Call("GetPods", Selector(rc[1]), ans))
    /\ IF ans = "ok"
       THEN /\ pod_list' = GetPods(Selector(rc[1]))
            /\ pc' = IF HasMembers(GetPods(Selector(rc[1])))
                     THEN "cd_resize"
                     ELSE "cd_delete"
            /\ UNCHANGED ret
       ELSE /\ UNCHANGED pod_list
            /\ Finish("KubernetesError")
    /\ Untouched
    /\ UNCHANGED <<resource_id, labels, phase, token, op, rc_name, rc, content>>
    /\ UNCHANGED resized

\* Lines 329-335.
CheckDelete_Resize(ans) ==
    /\ pc = "cd_resize"
    /\ ans \in ChangeAnswers(rc_name)
    /\ calls' = Append(calls, Call("Resize", rc_name, ans))
    /\ IF ans = "ok"
       THEN rcs' = Resized(rc_name, ResizeReplicas) /\ UNCHANGED <<pods, used>> /\ Touched
       ELSE Untouched
    /\ Finish(CheckDelete_ResizeOutcome(ans))
    /\ UNCHANGED <<resource_id, labels, phase, token, op, rc_name, rc,
                   pod_list, content>>
    /\ resized' = resized \cup {rc_name}

\* Lines 337-338: nothing catches an error of the delete call.
CheckDelete_Delete(ans) ==
    /\ pc = "cd_delete"
    /\ ans \in ChangeAnswers(rc_name)
    /\ calls' = Append(calls, Call("Delete", rc_name, ans))
    /\ IF ans = "ok"
       THEN rcs' = DropRC(rc_name) /\ UNCHANGED <<pods, used>> /\ Touched
       ELSE Untouched
    /\ Finish(CheckDelete_DeleteOutcome(ans))
    /\ UNCHANGED <<resource_id, labels, phase, token, op, rc_name, rc,
                   pod_list, content>>
    /\ UNCHANGED resized

----------------------------------------------------------------------------
(* The engine takes the outcome of the hook that ended.  It keeps the      *)
(* value a handle_* hook returned and passes it to the check_* hook; it    *)
(* polls a check_* hook again after False and after an error.              *)

Return ==
    /\ pc = "done"
    /\ pc' = "idle"
    /\ op' = ""
    /\ ret' = ""
    /\ calls' = <<>>
    /\ rc_name' = None
    /\ rc' = <<>>
    /\ pod_list' = <<>>
    /\ content' = <<>>
    /\ moved' = FALSE
    /\ seen' = IF op = "check_create_complete" /\ ret \in {"True", "False"} /\ ~moved
               THEN seen \cup {<<rc_name, ret>>}
               ELSE seen
    /\ phase' = CASE op = "handle_create" /\ ret \in Names -> "created"
                  [] op = "handle_delete" -> "deleting"
                  [] op = "check_delete_complete" /\ ret = "True" -> "deleted"
                  [] OTHER -> phase
    /\ token' = CASE op = "handle_create" /\ ret \in Names -> ret
                  [] op = "handle_delete" -> ret
                  [] OTHER -> token
    /\ UNCHANGED <<rcs, pods, used, resource_id, labels>>
    /\ UNCHANGED resized

\* A new KubernetesReplicationController object is built for the same
\* resource (lines 194-196): self.labels starts empty again, resource_id is
\* the engine's.
Restart ==
    /\ pc = "idle"
    /\ labels # None
    /\ labels' = None
    /\ UNCHANGED <<rcs, pods, used, resource_id, phase, token, op, pc, rc_name,
                   rc, pod_list, content, calls, ret, moved, seen>>
    /\ UNCHANGED resized

----------------------------------------------------------------------------
(* The control plane on its own: it works towards the desired replica      *)
(* count, and a workload can be removed by somebody else.                  *)

EnvFrame ==
    /\ pc # "done"
    /\ Touched
    /\ UNCHANGED <<used, resource_id, labels, phase, token, op, pc, rc_name,
                   rc, pod_list, content, calls, ret>>
    /\ UNCHANGED resized

\* The reported current replica count moves one step towards the desired one.
CPReplicaStep(n) ==
    /\ Present(n)
    /\ LET r == rcs[n][1] IN
       /\ r.CurrentState # r.DesiredState
       /\ rcs' = PutRC(n, [r EXCEPT !.CurrentState =
                             IF r.CurrentState < r.DesiredState
                             THEN r.CurrentState + 1
                             ELSE r.CurrentState - 1])
    /\ UNCHANGED pods
    /\ EnvFrame

CPPodCreate(n) ==
    /\ Present(n)
    /\ LET r == rcs[n][1] IN
       /\ Len(pods[r.Labels]) < r.DesiredState
       /\ pods' = [pods EXCEPT ![r.Labels] = Append(@, "Pending")]
    /\ UNCHANGED rcs
    /\ EnvFrame

CPPodRemove(n) ==
    /\ Present(n)
    /\ LET r == rcs[n][1] IN
       /\ Len(pods[r.Labels]) > r.DesiredState
       /\ \E i \in 1..Len(pods[r.Labels]) :
             pods' = [pods EXCEPT ![r.Labels] = RemoveAt(@, i)]
    /\ UNCHANGED rcs
    /\ EnvFrame

\* Pods are listed in the order of their creation and start in that order.
CPPodRun(l) ==
    /\ \E i \in 1..Len(pods[l]) :
          /\ pods[l][i] = "Pending"
          /\ \A j \in 1..(i - 1) : pods[l][j] = "Running"
          /\ pods' = [pods EXCEPT ![l][i] = "Running"]
    /\ UNCHANGED rcs
    /\ EnvFrame

CPVanish(n) ==
    /\ Present(n)
    /\ rcs' = DropRC(n)
    /\ UNCHANGED pods
    /\ EnvFrame

----------------------------------------------------------------------------
\* The engine starts a hook other than handle_create.
Calls ==
    \/ Call_check_create_complete
    \/ Call_handle_delete
    \/ Call_check_delete_complete

\* A statement of the hook that is running, or the hand-over of its outcome.
Steps ==
    \/ \E how \in {"open fails", "read fails", "read"} : HandleCreate_Read(how)
    \/ \E ans \in {"ok", "Rejected", "Transient"} : HandleCreate_Create(ans)
    \/ \E ans \in {"ok", "None", "Transient"} : CheckCreate_GetRC(ans)
    \/ \E ans \in ListAnswers : CheckCreate_GetPods(ans)
    \/ \E ans \in {"ok", "NotFound", "Transient"} : HandleDelete_Resize(ans)
    \/ \E ans \in {"ok", "None", "Transient"} : CheckDelete_GetRC(ans)
    \/ \E ans \in ListAnswers : CheckDelete_GetPods(ans)
    \/ \E ans \in {"ok", "NotFound", "Transient"} : CheckDelete_Resize(ans)
    \/ \E ans \in {"ok", "NotFound", "Transient"} : CheckDelete_Delete(ans)
    \/ Return

Env ==
    \/ Restart
    \/ \E n \in Names : CPReplicaStep(n)
    \/ \E n \in Names : CPPodCreate(n)
    \/ \E n \in Names : CPPodRemove(n)
    \/ \E l \in LabelValues : CPPodRun(l)
    \/ \E n \in Names : CPVanish(n)

Next == Call_handle_create \/ Calls \/ Steps \/ Env

Spec == Init /\ [][Next]_vars

\* The life of a resource whose create hook is started again only as long
\* as no workload came of it.
OnceNext == (used = {} /\ Call_handle_create) \/ Calls \/ Steps \/ Env

\* What the engine and the control plane are taken to guarantee while a
\* resource is being deleted: the engine takes every outcome and polls
\* check_delete_complete again; every client call returns; each kind of call
\* that is tried again and again is answered without an error at some point;
\* the control plane removes the pods a controller has beyond its desired
\* count (strong fairness, because the model holds the control plane still
\* while an outcome is handed over).
DeleteFairness ==
    /\ WF_vars(Return)
    /\ WF_vars(Call_check_delete_complete)
    /\ WF_vars(\E ans \in {"ok", "None", "Transient"} : CheckDelete_GetRC(ans))
    /\ WF_vars(\E ans \in ListAnswers : CheckDelete_GetPods(ans))
    /\ WF_vars(\E ans \in {"ok", "NotFound", "Transient"} : CheckDelete_Resize(ans))
    /\ WF_vars(\E ans \in {"ok", "NotFound", "Transient"} : CheckDelete_Delete(ans))
    /\ SF_vars(CheckDelete_GetRC("ok"))
    /\ SF_vars(CheckDelete_GetRC("None"))
    /\ SF_vars(CheckDelete_GetPods("ok"))
    /\ SF_vars(CheckDelete_Resize("ok"))
    /\ SF_vars(CheckDelete_Delete("ok"))
    /\ \A n \in Names : SF_vars(CPPodRemove(n))

FairSpec == Init /\ [][OnceNext]_vars /\ DeleteFairness

----------------------------------------------------------------------------
(* Properties.                                                             *)

\* The hook o has ended and the engine has not yet taken its outcome.
Ended(o) == op = o /\ pc = "done"

\* The answers the calls of kind o got in the current invocation.
AnswersOf(o) == {calls[i].out : i \in CallsOf(o)}

Raised == ret \in Exceptions

\* C1: within one invocation of check_delete_complete, the delete call is
\* reached or made only after GetPods answered, and only when the list it
\* answered with is empty.
C1_DeleteOnlyWithoutMembers ==
    (op = "check_delete_complete" /\ (pc = "cd_delete" \/ CallsOf("Delete") # {}))
        => /\ AnswersOf("GetPods") = {"ok"}
           /\ Len(pod_list) = 0

\* C1: an invocation that listed one or more pods and ended without a delete
\* call.
C1_Witness ==
    /\ Ended("check_delete_complete")
    /\ Len(pod_list) > 0
    /\ CallsOf("Delete") = {}
    /\ ret = "False"

\* C2: when GetReplicationController answers (and GetPods, where it is
\* called), check_create_complete returns True exactly when desired <=
\* current, at least `desired` pods are listed and every listed pod is
\* Running, and False otherwise; when the control plane did not move during
\* the invocation, the same holds of the control plane's own state.
C2_CreateCompleteIff ==
    (Ended("check_create_complete") /\ ~Raised)
        => /\ rc # <<>>
           /\ ret = IF /\ rc[1].DesiredState <= rc[1].CurrentState
                       /\ Len(pod_list) >= rc[1].DesiredState
                       /\ \A i \in 1..Len(pod_list) : pod_list[i] = "Running"
                    THEN "True"
                    ELSE "False"
           /\ ~moved =>
                /\ Present(rc_name)
                /\ LET r == rcs[rc_name][1]
                       members == pods[r.Labels]
                   IN ret = IF /\ r.DesiredState <= r.CurrentState
                               /\ Len(members) >= r.DesiredState
                               /\ \A i \in 1..Len(members) : members[i] = "Running"
                            THEN "True"
                            ELSE "False"

\* C2: desired = current = 2 with two pods, both Running: True.
C2_Witness ==
    /\ Ended("check_create_complete")
    /\ ret = "True"
    /\ rc[1].DesiredState = 2
    /\ rc[1].CurrentState = 2
    /\ pod_list = <<"Running", "Running">>

\* C3: an invocation of check_create_complete in which
\* GetReplicationController or GetPods raised a transient error ends with
\* that error, never with True.
C3_TransientNeverTrue ==
    (Ended("check_create_complete")
        /\ "Transient" \in (AnswersOf("Get") \cup AnswersOf("GetPods")))
        => ret = "KubernetesError"

\* C3: GetPods raised although the controller is behind in nothing and every
\* pod the control plane holds for it is Running.
C3_Witness ==
    /\ Ended("check_create_complete")
    /\ "Transient" \in AnswersOf("GetPods")
    /\ rc # <<>>
    /\ PodsVerdict(rc[1], pods[rc[1].Labels]) = "True"
    /\ ret = "KubernetesError"

\* The identity passed to check_delete_complete names nothing the control
\* plane knows: it is None, or GetReplicationController answered None, or the
\* workload is absent and the control plane stood still during the invocation.
Unknown ==
    \/ rc_name = None
    \/ "None" \in AnswersOf("Get")
    \/ (~moved /\ ~Present(rc_name))

NoChangeCall == CallsOf("Resize") = {} /\ CallsOf("Delete") = {} /\ CallsOf("Create") = {}

\* C4, as claimed: check_delete_complete on an empty identity or on one the
\* control plane does not know always returns True, with no resize and no
\* delete call.
C4_UnknownAlwaysTrue ==
    (Ended("check_delete_complete") /\ Unknown) => (ret = "True" /\ NoChangeCall)

\* C4, amended: on such an identity check_delete_complete makes no resize
\* and no delete call, and returns True unless its GetReplicationController
\* call raised; then that error leaves the hook.
C4_UnknownTrueUnlessGetRaises ==
    (Ended("check_delete_complete") /\ Unknown)
        => /\ NoChangeCall
           /\ ret = IF "Transient" \in AnswersOf("Get") THEN "KubernetesError" ELSE "True"

\* C4: a poll after an earlier poll returned True, on a name the control
\* plane no longer knows.
C4_Witness ==
    /\ Ended("check_delete_complete")
    /\ phase = "deleted"
    /\ rc_name \in Names
    /\ AnswersOf("Get") = {"None"}
    /\ ret = "True"

\* C5: when check_delete_complete finds the controller and an empty pod
\* list, it makes exactly one delete call and no resize call; it returns True
\* when the delete call succeeds, and then the controller is gone; an error
\* of the delete call leaves the hook.
C5_DeleteOnceWhenEmpty ==
    (Ended("check_delete_complete") /\ AnswersOf("GetPods") = {"ok"} /\ Len(pod_list) = 0)
        => /\ Cardinality(CallsOf("Delete")) = 1
           /\ CallsOf("Resize") = {}
           /\ ret = IF AnswersOf("Delete") = {"ok"} THEN "True" ELSE "KubernetesError"
           /\ ret = "True" => ~Present(rc_name)

\* C5: the delete call raised a transient error, which left the hook, and
\* the empty controller is still there.
C5_Witness ==
    /\ Ended("check_delete_complete")
    /\ Len(pod_list) = 0
    /\ AnswersOf("Delete") = {"Transient"}
    /\ ret = "KubernetesError"
    /\ Present(rc_name)

\* C6: handle_delete with a resource_id makes one call, the resize of that
\* identity, to 0 replicas when it is accepted, and returns the identity
\* whatever the call answered.
C6_HandleDeleteReturnsIdentity ==
    (Ended("handle_delete") /\ resource_id # None)
        => /\ Len(calls) = 1
           /\ calls[1].op = "Resize"
           /\ calls[1].name = resource_id
           /\ calls[1].out = "ok" => rcs[resource_id][1].DesiredState = 0
           /\ ret = resource_id

\* C6: the resize raised a transient error and the identity was returned.
C6_Witness ==
    /\ Ended("handle_delete")
    /\ resource_id \in Names
    /\ AnswersOf("Resize") = {"Transient"}
    /\ ret = resource_id

\* C8, as claimed: when the definition cannot be read, at open or at read,
\* handle_create ends with the read error and without a create call.
C8_UnreadableFailsWithoutSubmit ==
    (op = "handle_create" /\ pc \in {"hc_submit", "done"} /\ content = <<>>)
        => (pc = "done" /\ ret = "IOError" /\ CallsOf("Create") = {})

\* C9, as claimed: when GetReplicationController answers None for the
\* identity, check_create_complete returns False or ends with the client's
\* retryable error.
C9_UnknownIsNotConverged ==
    (Ended("check_create_complete") /\ "None" \in AnswersOf("Get"))
        => ret \in {"False", "KubernetesError"}

\* C10: while the control plane stands still, all invocations of
\* check_create_complete on one identity that return a boolean return the
\* same one.
C10_NoFlapping ==
    /\ \A a, b \in seen : a[1] = b[1] => a[2] = b[2]
    /\ (Ended("check_create_complete") /\ ~moved /\ ret \in {"True", "False"})
         => \A a \in seen : a[1] = rc_name => a[2] = ret

\* C10: a second poll under the same control-plane state, by a new resource
\* object, returns True like the one before it.
C10_Witness ==
    /\ Ended("check_create_complete")
    /\ ~moved
    /\ ret = "True"
    /\ <<rc_name, "True">> \in seen
    /\ labels = None

\* C7: once handle_delete has ended for a resource that has an identity,
\* some later invocation of check_delete_complete returns True with the
\* workload absent from the control plane, under DeleteFairness; the answer
\* the resize of handle_delete got does not matter.
C7_DeleteConverges ==
    (Ended("handle_delete") /\ resource_id \in Names)
        ~> (Ended("check_delete_complete") /\ ret = "True" /\ ~Present(rc_name))

\* C7: during deletion a poll finds the controller scaled to 0 and without
\* pods, its delete call is accepted, and it returns True with the workload
\* gone.
C7_Witness ==
    /\ Ended("check_delete_complete")
    /\ phase = "deleting"
    /\ rc_name \in Names
    /\ rc # <<>>
    /\ rc[1].DesiredState = 0
    /\ AnswersOf("Delete") = {"ok"}
    /\ ret = "True"
    /\ ~Present(rc_name)

----------------------------------------------------------------------------
\* C11: handle_delete on a resource without a recorded identity does
\* nothing: it makes no client call (no resize, no delete, nothing else),
\* changes nothing on the control plane and ends with None, not an error.
C11_DeleteWithoutIdentityIsNoOp ==
    (op = "handle_delete" /\ resource_id = None) =>
        /\ pc = "done"
        /\ calls = <<>>
        /\ ret = "None"
        /\ ~moved
        /\ resized = {}

C11_Witness ==
    /\ Ended("handle_delete")
    /\ resource_id = None
    /\ ret = "None"
    /\ calls = <<>>

----------------------------------------------------------------------------
\* Call number i of the invocation is call o on n, answered a.
IsCall(i, o, n, a) == i \in 1..Len(calls) /\ calls[i] = Call(o, n, a)

\* What an invocation of check_create_complete on rc_name does and returns,
\* told from rc_name and the answers of the control plane alone.
PollCreateByAnswers ==
    \/ Len(calls) = 1 /\ IsCall(1, "Get", rc_name, "Transient")
                      /\ ret = "KubernetesError"
    \/ Len(calls) = 1 /\ IsCall(1, "Get", rc_name, "None")
                      /\ ret = "AttributeError"
    \/ /\ IsCall(1, "Get", rc_name, "ok")
       /\ rc # <<>>
       /\ IF rc[1].DesiredState > rc[1].CurrentState
          THEN Len(calls) = 1 /\ ret = "False"
          ELSE /\ Len(calls) = 2
               /\ \/ IsCall(2, "GetPods", rc[1].Labels, "Transient")
                     /\ ret = "KubernetesError"
                  \/ IsCall(2, "GetPods", rc[1].Labels, "ok")
                     /\ ret = IF /\ Len(pod_list) = rc[1].DesiredState
                                 /\ \A i \in 1..Len(pod_list) :
                                        pod_list[i] = "Running"
                              THEN "True" ELSE "False"

\* The same for handle_delete on the recorded identity.
BeginDeleteByAnswers ==
    IF resource_id = None
    THEN calls = <<>> /\ ret = "None"
    ELSE /\ Len(calls) = 1
         /\ \E a \in {"ok", "NotFound", "Transient"} :
               IsCall(1, "Resize", resource_id, a)
         /\ ret = resource_id

\* The same for check_delete_complete on rc_name.
PollDeleteByAnswers ==
    IF rc_name = None
    THEN calls = <<>> /\ ret = "True"
    ELSE \/ Len(calls) = 1 /\ IsCall(1, "Get", rc_name, "Transient")
                           /\ ret = "KubernetesError"
         \/ Len(calls) = 1 /\ IsCall(1, "Get", rc_name, "None")
                           /\ ret = "True"
         \/ /\ IsCall(1, "Get", rc_name, "ok")
            /\ rc # <<>>
            /\ \/ Len(calls) = 2
                  /\ IsCall(2, "GetPods", rc[1].Labels, "Transient")
                  /\ ret = "KubernetesError"
               \/ /\ Len(calls) = 3
                  /\ IsCall(2, "GetPods", rc[1].Labels, "ok")
                  /\ IF Len(pod_list) > 0
                     THEN /\ \E a \in {"ok", "NotFound", "Transient"} :
                                IsCall(3, "Resize", rc_name, a)
                          /\ ret = "False"
                     ELSE \/ IsCall(3, "Delete", rc_name, "ok")
                             /\ ret = "True"
                          \/ /\ \E a \in {"NotFound", "Transient"} :
                                   IsCall(3, "Delete", rc_name, a)
                             /\ ret = "KubernetesError"

\* C12: the calls and the outcome of check_create_complete, handle_delete
\* and check_delete_complete follow from the identity passed back and the
\* answers of the control plane alone, not from self.labels: they are the
\* same on an object built anew after handle_create (self.labels empty) as
\* on the object that ran handle_create.
C12_RestartSafe ==
    /\ Ended("check_create_complete") => PollCreateByAnswers
    /\ Ended("handle_delete") => BeginDeleteByAnswers
    /\ Ended("check_delete_complete") => PollDeleteByAnswers

C12_Witness ==
    /\ Ended("check_create_complete")
    /\ resource_id # None
    /\ labels = None
    /\ ret = "True"
    /\ rc[1].DesiredState > 0
    /\ PollCreateByAnswers

----------------------------------------------------------------------------
\* C13: when the delete call of check_delete_complete is answered with "not
\* found" (the workload went away after its status was fetched), the hook
\* takes the deletion as done and returns True instead of raising.
C13_DeleteNotFoundIsTrue ==
    (Ended("check_delete_complete") /\ "NotFound" \in AnswersOf("Delete"))
        => ret = "True"

----------------------------------------------------------------------------
\* C14: when check_delete_complete fetched the workload and GetPods listed
\* at least one pod, the invocation issues the resize to 0 replicas for
\* rc_name exactly once, returns False whether the resize is accepted or
\* raises, and makes no delete call.
C14_ResizeAgainWhileMembers ==
    (Ended("check_delete_complete") /\ "ok" \in AnswersOf("GetPods")
         /\ Len(pod_list) > 0)
        => /\ Cardinality(CallsOf("Resize")) = 1
           /\ \A i \in CallsOf("Resize") : calls[i].name = rc_name
           /\ ("ok" \in AnswersOf("Resize") => rcs[rc_name][1].DesiredState = 0)
           /\ ret = "False"
           /\ CallsOf("Delete") = {}

C14_Witness ==
    /\ Ended("check_delete_complete")
    /\ Len(pod_list) > 0
    /\ AnswersOf("Resize") = {"Transient"}
    /\ ret = "False"

----------------------------------------------------------------------------
\* C15: with handle_delete invoked before check_delete_complete is polled,
\* a delete call for a name is issued only after a resize to 0 replicas was
\* requested for that name (accepted or not), and handle_delete itself
\* never issues a delete call.
C15_ResizeBeforeDelete ==
    /\ \A i \in CallsOf("Delete") : calls[i].name \in resized
    /\ pc = "cd_delete" => rc_name \in resized
    /\ op = "handle_delete" => CallsOf("Delete") = {}

C15_Witness ==
    /\ Ended("check_delete_complete")
    /\ "ok" \in AnswersOf("Delete")
    /\ CallsOf("Resize") = {}
    /\ rc_name \in resized

----------------------------------------------------------------------------
\* C16: whenever the delete call of check_delete_complete takes effect, the
\* workload has no pod at that moment, whatever the control plane did
\* between GetPods and the delete call: no workload is deleted while it has
\* pods, and none of its pods is left behind.
C16_NoMembersAtDelete ==
    (Ended("check_delete_complete") /\ "ok" \in AnswersOf("Delete"))
        => pods[rc[1].Labels] = <<>>

----------------------------------------------------------------------------
\* C17: when the status check_create_complete fetched has a desired count
\* above the current count, the hook returns False at once, without
\* GetPods; GetPods is reached or called only with desired <= current.
C17_ShortCircuitOnCounts ==
    (op = "check_create_complete" /\ rc # <<>>) =>
        IF rc[1].DesiredState > rc[1].CurrentState
        THEN /\ pc = "done"
             /\ ret = "False"
             /\ CallsOf("GetPods") = {}
             /\ Len(calls) = 1
        ELSE pc = "cc_pods" \/ Cardinality(CallsOf("GetPods")) = 1

C17_Witness ==
    /\ Ended("check_create_complete")
    /\ rc # <<>>
    /\ rc[1].DesiredState > rc[1].CurrentState
    /\ Len(pods[rc[1].Labels]) = rc[1].DesiredState
    /\ ret = "False"
    /\ CallsOf("GetPods") = {}

----------------------------------------------------------------------------
\* C18: handle_create has no guard against a repeated invocation: every
\* invocation that succeeds made exactly one create call, and returns and
\* records the name that call answered with; a second successful
\* invocation yields a second workload under another name than the first.
C18_EveryCreateSubmits ==
    (Ended("handle_create") /\ ret \in Names) =>
        /\ calls = <<Call("Create", "", "ok")>>
        /\ Present(ret)
        /\ ret \in used
        /\ resource_id = ret
        /\ phase = "created" => (token \in used /\ token # ret)

C18_Witness ==
    /\ Ended("handle_create")
    /\ phase = "created"
    /\ token = "rc1"
    /\ ret = "rc2"
    /\ resource_id = "rc2"
    /\ Present("rc1")
    /\ Present("rc2")

----------------------------------------------------------------------------
\* C19: an identity is recorded only once a create call succeeded.  While
\* none has (the create call or opening the definition failed), the
\* identity is empty, handle_delete makes no client call and hands None on,
\* and check_delete_complete on that value returns True at once: a failed
\* create leads to no resize and no delete call.
C19_FailedCreateLeavesNothing ==
    /\ (resource_id = None) <=> (used = {})
    /\ resource_id # None => resource_id \in used
    /\ resource_id = None =>
          /\ resized = {}
          /\ CallsOf("Resize") = {} /\ CallsOf("Delete") = {}
          /\ phase \in {"deleting", "deleted"} => token = None
          /\ op = "handle_delete" => (pc = "done" /\ ret = "None" /\ calls = <<>>)
          /\ op = "check_delete_complete" =>
                (pc = "done" /\ ret = "True" /\ calls = <<>>)

C19_Witness ==
    /\ Ended("handle_create")
    /\ AnswersOf("Create") = {"Rejected"}
    /\ ret = "KubernetesError"
    /\ resource_id = None

----------------------------------------------------------------------------
\* The calls of the current invocation are reads: at most one status fetch
\* and at most one pod listing.
OnlyReads ==
    /\ \A i \in 1..Len(calls) : calls[i].op \in {"Get", "GetPods"}
    /\ Cardinality(CallsOf("Get")) <= 1
    /\ Cardinality(CallsOf("GetPods")) <= 1

\* C20: check_create_complete only reads: on every path it calls
\* GetReplicationController and at most once GetPods, never create, resize
\* or delete, and none of its steps changes the recorded identity, the
\* workloads with their replica counts, or the pods.
C20_PollCreateReadOnly ==
    /\ [](op = "check_create_complete" => OnlyReads)
    /\ [][((op = "check_create_complete" \/ op' = "check_create_complete")
             /\ pc' # pc)
            => UNCHANGED <<rcs, pods, used, resource_id, resized>>]_vars

C20_Witness ==
    /\ Ended("check_create_complete")
    /\ Len(calls) = 2
    /\ "ok" \in AnswersOf("GetPods")
    /\ pod_list # <<>>
    /\ ~moved
    /\ ret = "False"

====
